---- MODULE Spec2Model ----
(***************************************************************************)
(* Bring-up and self-test of the spi ram behind the octospi controller     *)
(* (src/spiram.c), startup-test build (MICROPY_HW_SPIRAM_STARTUP_TEST is   *)
(* defined: spiram_error, which ospi_init calls unconditionally, exists    *)
(* only in that build).  Both MPU variants (MICROPY_HW_SPIRAM_USE_HAL      *)
(* set or not) are covered.                                                *)
(*                                                                         *)
(* One action per HAL call, MPU operation, load or store, in program       *)
(* order.  The outcome of every HAL call (HAL_OK or not) and the value     *)
(* every load of the self-test returns are chosen by the environment.      *)
(***************************************************************************)
EXTENDS Integers, Sequences, FiniteSets, TLC

VARIABLES
    pc,                 \* position in the program
    caller,             \* the call in progress or made last: "init" (spiram_init), "user"
                        \* (spiram_test called by the user), "read", "write"
    use_hal,            \* build option MICROPY_HW_SPIRAM_USE_HAL
    fast,               \* argument of the running spiram_test call
    spiram_err,         \* static enum spiram_err_enum spiram_err
    spiram_id,          \* static uint8_t spiram_id[8]
    spiram_bad_addr,    \* static uint32_t spiram_bad_addr
    spiram_bad_pattern8,
    spiram_bad_pattern16,
    spiram_bad_pattern32,
    sCommand,           \* the OSPI_RegularCmdTypeDef local of the running function
    idx,                \* loop variable (addr in spiram_clear, i in the memtests)
    cmd_ok,             \* the command phase of the transaction in flight was accepted
    wcfg, rcfg, mmap,   \* status of write-path config, read-path config, mapping: "none", "ok", "fail"
    mpu,                \* MPU control and the regions this driver programs
    mem,                \* contents of the spi ram, one byte per address
    init_ret,           \* value spiram_init returned: "true", "false" ("none" before it returns)
    test_ret,           \* value the last spiram_test returned: "true", "false" ("none" before)
    tests,              \* number of calls the user made so far, once spiram_init had returned
    console,            \* what spiram_dmesg printed during the current top-level call
    raised,             \* the exception spiram_read or spiram_write raised to its caller ("none": returned)
    dest,               \* what the last spiram_read left in its destination buffer
    \* observation of the run, not program state:
    log,                \* HAL calls, MPU operations and memtests issued by the current top-level call
    quad_entry_err,     \* spiram_err when spiram_quad_on was entered
    quad_first_fail,    \* variant of the first failing call since spiram_quad_on was entered
    hal_failed,         \* some HAL call of bring-up returned an error
    test_entry_err,     \* spiram_err when the running/last spiram_test was entered
    observed,           \* per granularity, the first mismatching load of the current/last spiram_test
    st_touched,         \* the self-test issued a load or store in the current top-level call
    acc,                \* loads and stores of the running/last spiram_test, in the order issued
    faults              \* what the environment did so far: HAL calls that failed, mapped loads
                        \* that were corrupted, calls the user made

prog  == <<pc, caller, use_hal, fast>>
diag  == <<spiram_err, spiram_id, spiram_bad_addr, spiram_bad_pattern8,
           spiram_bad_pattern16, spiram_bad_pattern32>>
bad   == <<spiram_bad_addr, spiram_bad_pattern8, spiram_bad_pattern16, spiram_bad_pattern32>>
hw    == <<wcfg, rcfg, mmap, mpu, mem>>
rets  == <<init_ret, test_ret, tests, console>>
ghost == <<quad_entry_err, quad_first_fail, hal_failed, test_entry_err, observed, st_touched>>
trace == <<acc>>
xfer  == <<raised, dest>>
vars  == <<prog, diag, sCommand, idx, cmd_ok, hw, rets, xfer, log, ghost, trace, faults>>

----------------------------------------------------------------------------
(* Bounds of the model *)

\* 32-bit words of spi ram (0x800000 / 4 in the source)
RamWords == 2
\* 32-bit words in the buffer spiram_clear transmits per transaction (8 in the source)
SrcWords == 1
\* calls the user makes after spiram_init has returned
MaxTests == 1
\* HAL calls that fail, loads of a mapped window that are corrupted and calls
\* the user makes, per boot
MaxFaults == 2

----------------------------------------------------------------------------
(* Program constants *)

SRAM_CMD_QUAD_READ  == 235  \* 0xeb
SRAM_CMD_QUAD_WRITE == 56   \* 0x38
SRAM_CMD_QUAD_ON    == 53   \* 0x35
SRAM_CMD_RST_EN     == 102  \* 0x66
SRAM_CMD_RST        == 153  \* 0x99
SRAM_CMD_READ_ID    == 159  \* 0x9f

\* A uint32_t is a pair <<high half, low half>> of 16-bit halves; a value
\* loaded or stored is the sequence of its bytes, lowest byte first.
AddU32(a, n) ==
    LET lo == a[2] + n
    IN  <<(a[1] + (lo \div 65536)) % 65536, lo % 65536>>

\* OCTOSPI1_BASE, 0x90000000
OSPI_MAP_ADDR == <<36864, 0>>

sizeof_src == 4 * SrcWords
MICROPY_HW_SPIRAM_SIZE == 4 * RamWords

spiram_pattern8  == <<165>>                 \* 0xA5
spiram_pattern16 == <<90, 90>>              \* 0x5A5A
spiram_pattern32 == <<165, 165, 165, 165>>  \* 0xA5A5A5A5

spiram_err_enum ==
    {"OK", "MEMTEST_PASS", "MEMTEST8", "MEMTEST16", "MEMTEST32", "OSPI_INIT",
     "OSPI_WRITE_CONFIG", "OSPI_READ_CONFIG", "OSPI_MMAP", "READID_CMD", "READID_DTA",
     "QSPI_RST_EN", "QSPI_RST", "SPI_RSTEN", "SPI_RST", "QUAD_ON", "CLEAR"}

\* bytes of const uint32_t src[] = {0xDEADBEEF, ...}, little endian
src_byte(k) == <<239, 190, 173, 222>>[(k % 4) + 1]

\* sample identifier of the device
DeviceId == <<13, 93, 82, 162, 100, 49, 145, 49>>
\* what the receive phase delivers when no read-identifier command was accepted
IdleBus == <<255, 255, 255, 255, 255, 255, 255, 255>>
\* contents of the spi ram at power-up
PowerOn == [a \in 0..(MICROPY_HW_SPIRAM_SIZE - 1) |-> 0]

Pattern(g) == CASE g = 8 -> spiram_pattern8 [] g = 16 -> spiram_pattern16 [] g = 32 -> spiram_pattern32
\* values a corrupted load can deliver at granularity g
BadValues(g) == {[k \in 1..(g \div 8) |-> 0], [k \in 1..(g \div 8) |-> 255]}

Granularities == {8, 16, 32}
NoObs == [addr |-> <<>>, val |-> <<>>]

----------------------------------------------------------------------------
(* The command structure, OSPI_RegularCmdTypeDef.  Line modes are the number
   of lines (0: none); DQSMode is TRUE for HAL_OSPI_DQS_ENABLE. *)

ZeroCmd ==
    [OperationType |-> "COMMON_CFG", InstructionMode |-> 0, AddressMode |-> 0,
     DataMode |-> 0, DQSMode |-> FALSE, Instruction |-> 0, Address |-> 0,
     NbData |-> 0, DummyCycles |-> 0]

\* sCommand as spiram_quad_on sets it up before its first call
quad_on_cmd ==
    [ZeroCmd EXCEPT !.InstructionMode = 4, !.Instruction = SRAM_CMD_RST_EN]

\* sCommand as spiram_read_id sets it up
read_id_cmd ==
    [ZeroCmd EXCEPT !.InstructionMode = 1, !.AddressMode = 1, !.DataMode = 1,
                    !.Instruction = SRAM_CMD_READ_ID, !.NbData = 8]

\* sCommand as spiram_clear sets it up
clear_cmd ==
    [ZeroCmd EXCEPT !.InstructionMode = 4, !.AddressMode = 4, !.DataMode = 4,
                    !.DQSMode = TRUE, !.Instruction = SRAM_CMD_QUAD_WRITE,
                    !.NbData = sizeof_src]

\* the write-path configuration with the data strobe left disabled
write_cfg_cmd_dqs_off ==
    [ZeroCmd EXCEPT !.OperationType = "WRITE_CFG", !.InstructionMode = 4,
                    !.AddressMode = 4, !.DataMode = 4, !.DQSMode = FALSE,
                    !.Instruction = SRAM_CMD_QUAD_WRITE]

\* sCommand as ospi_mmap sets it up for the write path
write_cfg_cmd ==
    [ZeroCmd EXCEPT !.OperationType = "WRITE_CFG", !.InstructionMode = 4,
                    !.AddressMode = 4, !.DataMode = 4, !.DQSMode = TRUE,
                    !.Instruction = SRAM_CMD_QUAD_WRITE]

\* the changes ospi_mmap makes to sCommand for the read path
read_cfg_cmd(c) ==
    [c EXCEPT !.DQSMode = FALSE, !.OperationType = "READ_CFG",
              !.Instruction = SRAM_CMD_QUAD_READ, !.DummyCycles = 6]

\* sCommand as spiram_read sets it up
spiram_read_cmd(addr, len) ==
    [ZeroCmd EXCEPT !.InstructionMode = 4, !.AddressMode = 4, !.DataMode = 4,
                    !.DQSMode = FALSE, !.Instruction = SRAM_CMD_QUAD_READ,
                    !.Address = addr, !.NbData = len, !.DummyCycles = 6]

\* sCommand as spiram_write sets it up
spiram_write_cmd(addr, len) ==
    [ZeroCmd EXCEPT !.InstructionMode = 4, !.AddressMode = 4, !.DataMode = 4,
                    !.DQSMode = TRUE, !.Instruction = SRAM_CMD_QUAD_WRITE,
                    !.Address = addr, !.NbData = len, !.DummyCycles = 0]

----------------------------------------------------------------------------
(* Program order.  A function body is the sequence of its steps; a step is a
   HAL call, an MPU operation or a loop of loads or stores. *)

spiram_read_id_body == <<"read_id_cmd", "read_id_dta">>

\* spiram_quad_on reading the identifier once quad mode is on
spiram_quad_on_body_id_last ==
    <<"quad_qspi_rst_en", "quad_qspi_rst", "quad_spi_rst_en", "quad_spi_rst", "quad_on">>
    \o spiram_read_id_body

spiram_quad_on_body ==
    <<"quad_qspi_rst_en", "quad_qspi_rst", "quad_spi_rst_en", "quad_spi_rst">>
    \o spiram_read_id_body \o <<"quad_on">>

spiram_clear_body == <<"clear_cmd", "clear_tx">>

\* ospi_mmap activating the mapping before it programs the two paths
ospi_mmap_body_activate_first ==
    <<"mmap_mpu_disable", "mmap_activate", "mmap_write_cfg", "mmap_read_cfg",
      "mmap_mpu_enable">>

\* ospi_mmap enabling the window before it activates the mapping
ospi_mmap_body_enable_early ==
    <<"mmap_mpu_disable", "mmap_write_cfg", "mmap_read_cfg", "mmap_mpu_enable",
      "mmap_activate">>

ospi_mmap_body ==
    <<"mmap_mpu_disable", "mmap_write_cfg", "mmap_read_cfg", "mmap_activate",
      "mmap_mpu_enable">>

\* memtests that read the ram back before they write the pattern
spiram_test_body_read_first ==
    <<"memtest32_read", "memtest32_write", "memtest16_read", "memtest16_write",
      "memtest8_read", "memtest8_write", "test_pass">>

\* spiram_test calling the memtests in the order 8-bit, 16-bit, 32-bit
spiram_test_body_8_first ==
    <<"memtest8_write", "memtest8_read", "memtest16_write", "memtest16_read",
      "memtest32_write", "memtest32_read", "test_pass">>

spiram_test_body ==
    <<"memtest32_write", "memtest32_read", "memtest16_write", "memtest16_read",
      "memtest8_write", "memtest8_read", "test_pass">>

\* spiram_init clearing the ram before it negotiates the mode
spiram_init_body_clear_first ==
    <<"ospi_init">> \o spiram_clear_body \o spiram_quad_on_body \o ospi_mmap_body
    \o <<"test_enter">> \o spiram_test_body \o <<"init_return">>

\* spiram_init without the call of spiram_test
spiram_init_body_no_test ==
    <<"ospi_init">> \o spiram_quad_on_body \o spiram_clear_body \o ospi_mmap_body
    \o <<"init_return">>

spiram_init_body ==
    <<"ospi_init">> \o spiram_quad_on_body \o spiram_clear_body \o ospi_mmap_body
    \o <<"test_enter">> \o spiram_test_body \o <<"init_return">>

\* the step that follows step l in program order
After(l) ==
    LET k == CHOOSE j \in 1..Len(spiram_init_body) : spiram_init_body[j] = l
    IN  spiram_init_body[k + 1]

\* a failure branch that returns from spiram_init
AbortOnFailure(l, ok) == IF ok THEN After(l) ELSE "init_return"

\* a failure branch that calls __fatal_error, which does not return
FatalOnFailure(l, ok) == IF ok THEN After(l) ELSE "fatal_error"

\* a failure branch that issues the call again
RetryOnFailure(l, ok) == IF ok THEN After(l) ELSE l

\* where control goes after a HAL call: the failure branches only record the
\* error, none of them returns
NextPc(l, ok) == After(l)

\* a failure branch of spiram_read or spiram_write that falls through
fall_through(l, ok) == l

\* mp_raise_RuntimeError does not return: after a HAL call of spiram_read or
\* spiram_write that failed, control is back with the caller
mp_raise_RuntimeError(l, ok) == IF ok THEN l ELSE "idle"

\* spiram_error without its test of spiram_err
spiram_error_overwrite(errno) == errno

\* static inline void spiram_error(errno): the value spiram_err has afterwards
spiram_error(errno) == IF spiram_err = "OK" THEN errno ELSE spiram_err

\* the console while spiram_dmesg has printed nothing
nothing_printed ==
    [eid |-> <<>>, result |-> "none", address |-> <<>>, written |-> <<>>, read |-> <<>>]

----------------------------------------------------------------------------
(* Memory protection unit *)

NoRegion == [base |-> <<0, 0>>, size |-> "none", attr |-> "unset"]

\* ospi_mpu_disable_all
ospi_mpu_disable_all(m) ==
    IF use_hal
    THEN [m EXCEPT !.ctrl = "off"]
    ELSE [m EXCEPT !.QSPI1 = [base |-> OSPI_MAP_ADDR, size |-> "256MB",
                              attr |-> "MPU_CONFIG_DISABLE"]]

\* ospi_mpu_enable_mapped
ospi_mpu_enable_mapped(m) ==
    IF use_hal
    THEN [m EXCEPT !.REGION0 = [base |-> OSPI_MAP_ADDR, size |-> "8MB",
                                attr |-> "TEX1_CACHEABLE_BUFFERABLE"],
                   !.ctrl = "on"]
    ELSE [m EXCEPT !.QSPI1 = [base |-> OSPI_MAP_ADDR, size |-> "256MB",
                              attr |-> "MPU_CONFIG_DISABLE"],
                   !.QSPI2 = [base |-> OSPI_MAP_ADDR, size |-> "8MB",
                              attr |-> "MPU_CONFIG_SDRAM"]]

\* the window region has been enabled for access
window_enabled ==
    IF use_hal THEN mpu.ctrl = "on" /\ mpu.REGION0.attr # "unset"
               ELSE mpu.QSPI2.attr # "unset"

----------------------------------------------------------------------------
(* The memory behind the window, little endian *)

\* the value of mem_base[i] for a pointer to g-bit elements
ReadElem(m, g, i) == [k \in 1..(g \div 8) |-> m[(g \div 8) * i + k - 1]]

\* the memory after mem_base[i] = v for a pointer to g-bit elements
StoreElem(m, g, i, v) ==
    LET n == g \div 8
    IN  [a \in DOMAIN m |->
            IF a \in (n * i)..(n * i + n - 1)
            THEN v[a - n * i + 1]
            ELSE m[a]]

\* the address of mem_base[i] for a pointer to g-bit elements
ElemAddr(g, i) == AddU32(OSPI_MAP_ADDR, (g \div 8) * i)

\* number of elements a memtest loop covers
ElemCount(g) ==
    CASE g = 8 -> MICROPY_HW_SPIRAM_SIZE
      [] g = 16 -> MICROPY_HW_SPIRAM_SIZE \div 2
      [] g = 32 -> MICROPY_HW_SPIRAM_SIZE \div 4

\* one load or store of mem_base[i] through a pointer to g-bit elements
Access(g, op, i) == <<g, op, i>>

\* void *spiram_start(void): lowest spiram address
spiram_start == OSPI_MAP_ADDR

\* spiram_end returning the highest spiram address
spiram_end_inclusive == AddU32(OSPI_MAP_ADDR, MICROPY_HW_SPIRAM_SIZE - 1)

\* void *spiram_end(void): highest spiram address + 1
spiram_end == AddU32(OSPI_MAP_ADDR, MICROPY_HW_SPIRAM_SIZE)

\* the read path is mapped
LoadMapped == mmap = "ok" /\ rcfg = "ok"

\* the values a load of element i can deliver: what the ram holds or a
\* corrupted value when the read path is mapped, anything otherwise
LoadValues(g, i) ==
    IF LoadMapped
    THEN {ReadElem(mem, g, i)} \cup (IF faults < MaxFaults THEN BadValues(g) ELSE {})
    ELSE BadValues(g)

\* a store reaches the ram when the write path is mapped
StoreLands == mmap = "ok" /\ wcfg = "ok"

\* the element index taken for a byte offset
bad_addr_unscaled(g, i) == AddU32(OSPI_MAP_ADDR, i)

\* the address a memtest records for a mismatch at element i
bad_addr_of(g, i) ==
    CASE g = 8 -> AddU32(OSPI_MAP_ADDR, i)
      [] g = 16 -> AddU32(OSPI_MAP_ADDR, 2 * i)
      [] g = 32 -> AddU32(OSPI_MAP_ADDR, 4 * i)

memtest_name(g) ==
    CASE g = 8 -> "spiram_memtest8" [] g = 16 -> "spiram_memtest16" [] g = 32 -> "spiram_memtest32"

memtest_errno(g) ==
    CASE g = 8 -> "MEMTEST8" [] g = 16 -> "MEMTEST16" [] g = 32 -> "MEMTEST32"

----------------------------------------------------------------------------
(* Initial state: the statics as initialised, nothing programmed yet *)

Init ==
    /\ pc = "boot"
    /\ caller = "init"
    /\ use_hal \in BOOLEAN
    /\ fast = FALSE
    /\ spiram_err = "OK"
    /\ spiram_id = <<0, 0, 0, 0, 0, 0, 0, 0>>
    /\ spiram_bad_addr = <<65535, 65535>>
    /\ spiram_bad_pattern8 = <<255>>
    /\ spiram_bad_pattern16 = <<255, 255>>
    /\ spiram_bad_pattern32 = <<255, 255, 255, 255>>
    /\ sCommand = ZeroCmd
    /\ idx = 0
    /\ cmd_ok = FALSE
    /\ wcfg = "none" /\ rcfg = "none" /\ mmap = "none"
    /\ mpu = [ctrl |-> "reset", QSPI1 |-> NoRegion, QSPI2 |-> NoRegion, REGION0 |-> NoRegion]
    /\ mem = PowerOn
    /\ init_ret = "none" /\ test_ret = "none" /\ tests = 0 /\ console = nothing_printed
    /\ raised = "none" /\ dest = <<>>
    /\ log = <<>>
    /\ quad_entry_err = "none" /\ quad_first_fail = "none"
    /\ hal_failed = FALSE
    /\ test_entry_err = "none"
    /\ observed = [g \in Granularities |-> NoObs]
    /\ st_touched = FALSE
    /\ acc = <<>>
    /\ faults = 0

\* what every HAL call of bring-up does besides its own effect: it is logged,
\* and a failure is recorded with spiram_error
Hal(op, cmd, errno, ok) ==
    /\ ok \/ faults < MaxFaults
    /\ faults' = IF ok THEN faults ELSE faults + 1
    /\ log' = Append(log, [op |-> op, cmd |-> cmd])
    /\ spiram_err' = IF ok THEN spiram_err ELSE spiram_error(errno)
    /\ hal_failed' = (hal_failed \/ ~ok)

FirstFail(errno, ok) ==
    quad_first_fail' = IF ~ok /\ quad_first_fail = "none" THEN errno ELSE quad_first_fail

----------------------------------------------------------------------------
(* spiram_init: the call, and ospi_init *)

spiram_init ==
    /\ pc = "boot"
    /\ pc' = spiram_init_body[1]
    /\ caller' = "init"
    /\ log' = <<>>
    /\ UNCHANGED <<xfer, trace, faults, use_hal, fast, diag, sCommand, idx, cmd_ok, hw, rets, ghost>>

ospi_init ==
    /\ pc = "ospi_init"
    /\ \E ok \in BOOLEAN :
          /\ Hal("HAL_OSPI_Init", ZeroCmd, "OSPI_INIT", ok)
          /\ pc' = NextPc("ospi_init", ok)
    /\ UNCHANGED <<xfer, trace, caller, use_hal, fast, spiram_id, bad, sCommand, idx, cmd_ok, hw, rets,
                   quad_entry_err, quad_first_fail, test_entry_err, observed, st_touched>>

----------------------------------------------------------------------------
(* spiram_quad_on and spiram_read_id *)

\* a command-only step of spiram_quad_on: sCommand is changed to cmd, then issued
QuadStep(here, cmd, errno) ==
    /\ pc = here
    /\ sCommand' = cmd
    /\ \E ok \in BOOLEAN :
          /\ Hal("HAL_OSPI_Command", cmd, errno, ok)
          /\ FirstFail(errno, ok)
          /\ pc' = NextPc(here, ok)
    /\ UNCHANGED <<xfer, trace, caller, use_hal, fast, spiram_id, bad, idx, cmd_ok, hw, rets,
                   test_entry_err, observed, st_touched>>

quad_qspi_rst_en ==
    /\ quad_entry_err' = spiram_err
    /\ QuadStep("quad_qspi_rst_en", quad_on_cmd, "QSPI_RST_EN")

quad_qspi_rst ==
    /\ QuadStep("quad_qspi_rst", [sCommand EXCEPT !.Instruction = SRAM_CMD_RST], "QSPI_RST")
    /\ UNCHANGED quad_entry_err

quad_spi_rst_en ==
    /\ QuadStep("quad_spi_rst_en",
                [sCommand EXCEPT !.InstructionMode = 1, !.Instruction = SRAM_CMD_RST_EN],
                "SPI_RSTEN")
    /\ UNCHANGED quad_entry_err

quad_spi_rst ==
    /\ QuadStep("quad_spi_rst", [sCommand EXCEPT !.Instruction = SRAM_CMD_RST], "SPI_RST")
    /\ UNCHANGED quad_entry_err

\* spiram_read_id has its own sCommand; spiram_quad_on's is kept in sCommand,
\* the one of spiram_read_id goes to the log only
read_id_cmd_step ==
    /\ pc = "read_id_cmd"
    /\ \E ok \in BOOLEAN :
          /\ Hal("HAL_OSPI_Command", read_id_cmd, "READID_CMD", ok)
          /\ FirstFail("READID_CMD", ok)
          /\ cmd_ok' = ok
          /\ pc' = NextPc("read_id_cmd", ok)
    /\ UNCHANGED <<xfer, trace, caller, use_hal, fast, spiram_id, bad, sCommand, idx, hw, rets,
                   quad_entry_err, test_entry_err, observed, st_touched>>

\* a receive into a buffer of the wrong size: the last byte is not filled
ReceiveId_short(ok) ==
    IF ok THEN [k \in 1..8 |-> IF k < 8 THEN DeviceId[k] ELSE spiram_id[k]] ELSE spiram_id

\* the identifier HAL_OSPI_Receive leaves in spiram_id
ReceiveId(ok) ==
    IF ok THEN (IF cmd_ok THEN DeviceId ELSE IdleBus) ELSE spiram_id

read_id_dta ==
    /\ pc = "read_id_dta"
    /\ \E ok \in BOOLEAN :
          /\ Hal("HAL_OSPI_Receive", ZeroCmd, "READID_DTA", ok)
          /\ FirstFail("READID_DTA", ok)
          /\ spiram_id' = ReceiveId(ok)
          /\ pc' = NextPc("read_id_dta", ok)
    /\ cmd_ok' = FALSE
    /\ UNCHANGED <<xfer, trace, caller, use_hal, fast, bad, sCommand, idx, hw, rets,
                   quad_entry_err, test_entry_err, observed, st_touched>>

quad_on ==
    /\ QuadStep("quad_on", [sCommand EXCEPT !.Instruction = SRAM_CMD_QUAD_ON], "QUAD_ON")
    /\ UNCHANGED quad_entry_err

----------------------------------------------------------------------------
(* spiram_clear: for (addr = 0; addr < MICROPY_HW_SPIRAM_SIZE; addr += sizeof(src)) *)

clear_cmd_step ==
    /\ pc = "clear_cmd"
    /\ sCommand' = [clear_cmd EXCEPT !.Address = idx]
    /\ \E ok \in BOOLEAN :
          /\ Hal("HAL_OSPI_Command", sCommand', "CLEAR", ok)
          /\ cmd_ok' = ok
          /\ pc' = NextPc("clear_cmd", ok)
    /\ UNCHANGED <<xfer, trace, caller, use_hal, fast, spiram_id, bad, idx, hw, rets,
                   quad_entry_err, quad_first_fail, test_entry_err, observed, st_touched>>

\* the ram after src has been transmitted to address a
Transmit(m, a) ==
    [b \in DOMAIN m |->
        IF \E k \in 0..(sizeof_src - 1) : b = (a + k) % MICROPY_HW_SPIRAM_SIZE
        THEN src_byte((b - a) % MICROPY_HW_SPIRAM_SIZE)
        ELSE m[b]]

clear_tx ==
    /\ pc = "clear_tx"
    /\ \E ok \in BOOLEAN :
          /\ Hal("HAL_OSPI_Transmit", ZeroCmd, "CLEAR", ok)
          /\ mem' = IF ok /\ cmd_ok THEN Transmit(mem, idx) ELSE mem
          /\ IF idx + sizeof_src < MICROPY_HW_SPIRAM_SIZE
             THEN pc' = "clear_cmd" /\ idx' = idx + sizeof_src
             ELSE pc' = NextPc("clear_tx", ok) /\ idx' = 0
    /\ cmd_ok' = FALSE
    /\ UNCHANGED <<xfer, trace, caller, use_hal, fast, spiram_id, bad, sCommand, wcfg, rcfg, mmap, mpu, rets,
                   quad_entry_err, quad_first_fail, test_entry_err, observed, st_touched>>

----------------------------------------------------------------------------
(* ospi_mmap *)

mmap_mpu_disable ==
    /\ pc = "mmap_mpu_disable"
    /\ sCommand' = ZeroCmd
    /\ mpu' = ospi_mpu_disable_all(mpu)
    /\ log' = Append(log, [op |-> "ospi_mpu_disable_all", cmd |-> ZeroCmd])
    /\ pc' = After("mmap_mpu_disable")
    /\ UNCHANGED <<xfer, trace, faults, caller, use_hal, fast, diag, idx, cmd_ok, wcfg, rcfg, mmap, mem, rets, ghost>>

mmap_write_cfg ==
    /\ pc = "mmap_write_cfg"
    /\ sCommand' = write_cfg_cmd
    /\ \E ok \in BOOLEAN :
          /\ Hal("HAL_OSPI_Command", sCommand', "OSPI_WRITE_CONFIG", ok)
          /\ wcfg' = IF ok THEN "ok" ELSE "fail"
          /\ pc' = NextPc("mmap_write_cfg", ok)
    /\ UNCHANGED <<xfer, trace, caller, use_hal, fast, spiram_id, bad, idx, cmd_ok, rcfg, mmap, mpu, mem, rets,
                   quad_entry_err, quad_first_fail, test_entry_err, observed, st_touched>>

mmap_read_cfg ==
    /\ pc = "mmap_read_cfg"
    /\ sCommand' = read_cfg_cmd(sCommand)
    /\ \E ok \in BOOLEAN :
          /\ Hal("HAL_OSPI_Command", sCommand', "OSPI_READ_CONFIG", ok)
          /\ rcfg' = IF ok THEN "ok" ELSE "fail"
          /\ pc' = NextPc("mmap_read_cfg", ok)
    /\ UNCHANGED <<xfer, trace, caller, use_hal, fast, spiram_id, bad, idx, cmd_ok, wcfg, mmap, mpu, mem, rets,
                   quad_entry_err, quad_first_fail, test_entry_err, observed, st_touched>>

mmap_activate ==
    /\ pc = "mmap_activate"
    /\ \E ok \in BOOLEAN :
          /\ Hal("HAL_OSPI_MemoryMapped", ZeroCmd, "OSPI_MMAP", ok)
          /\ mmap' = IF ok THEN "ok" ELSE "fail"
          /\ pc' = NextPc("mmap_activate", ok)
    /\ UNCHANGED <<xfer, trace, caller, use_hal, fast, spiram_id, bad, sCommand, idx, cmd_ok, wcfg, rcfg, mpu,
                   mem, rets, quad_entry_err, quad_first_fail, test_entry_err, observed,
                   st_touched>>

mmap_mpu_enable ==
    /\ pc = "mmap_mpu_enable"
    /\ mpu' = ospi_mpu_enable_mapped(mpu)
    /\ log' = Append(log, [op |-> "ospi_mpu_enable_mapped", cmd |-> ZeroCmd])
    /\ pc' = After("mmap_mpu_enable")
    /\ UNCHANGED <<xfer, trace, faults, caller, use_hal, fast, diag, sCommand, idx, cmd_ok, wcfg, rcfg, mmap, mem,
                   rets, ghost>>

----------------------------------------------------------------------------
(* spiram_test and the three memtests *)

\* entering spiram_test: nothing of the program changes; the observation of
\* the previous test is dropped
TestEntry ==
    /\ test_entry_err' = spiram_err
    /\ observed' = [g \in Granularities |-> NoObs]
    /\ acc' = <<>>
    /\ idx' = 0

\* spiram_test(false), called by spiram_init
test_enter ==
    /\ pc = "test_enter"
    /\ pc' = After("test_enter")
    /\ fast' = FALSE
    /\ TestEntry
    /\ UNCHANGED <<xfer, faults, caller, use_hal, diag, sCommand, cmd_ok, hw, rets, log,
                   quad_entry_err, quad_first_fail, hal_failed, st_touched>>

\* spiram_test(fast), called by the user once spiram_init has returned
spiram_test ==
    /\ pc = "idle"
    /\ tests < MaxTests
    /\ tests' = tests + 1
    /\ pc' = spiram_test_body[1]
    /\ caller' = "user"
    /\ \E f \in BOOLEAN : fast' = f
    /\ TestEntry
    /\ log' = <<>>
    /\ st_touched' = FALSE
    /\ console' = nothing_printed
    /\ raised' = "none"
    /\ dest' = <<>>
    /\ faults < MaxFaults
    /\ faults' = faults + 1
    /\ UNCHANGED <<use_hal, diag, sCommand, cmd_ok, hw, init_ret, test_ret,
                   quad_entry_err, quad_first_fail, hal_failed>>

\* spiram_test with a fast argument that leaves out the 16-bit and 8-bit memtests
spiram_test_next_fast(here) ==
    IF fast /\ here = "memtest32_read" THEN "test_pass" ELSE After(here)

\* where spiram_test goes when the loop at step here is left: the argument
\* fast is not looked at
spiram_test_next(here) == After(here)

\* write pattern to ram: mem_base[i] = pattern, one store per step
memtest_write(g, here) ==
    /\ pc = here
    /\ mem' = IF StoreLands THEN StoreElem(mem, g, idx, Pattern(g)) ELSE mem
    /\ st_touched' = TRUE
    /\ acc' = Append(acc, Access(g, "store", idx))
    /\ log' = IF idx = 0
              THEN Append(log, [op |-> memtest_name(g), cmd |-> ZeroCmd])
              ELSE log
    /\ IF idx + 1 < ElemCount(g)
       THEN pc' = here /\ idx' = idx + 1
       ELSE pc' = spiram_test_next(here) /\ idx' = 0
    /\ UNCHANGED <<xfer, faults, caller, use_hal, fast, diag, sCommand, cmd_ok, wcfg, rcfg, mmap, mpu, rets,
                   quad_entry_err, quad_first_fail, hal_failed, test_entry_err, observed>>

\* the statics a memtest changes when the load of element i delivers v
Mismatch(g, i, v) ==
    /\ spiram_err' = spiram_error(memtest_errno(g))
    /\ spiram_bad_addr' = bad_addr_of(g, i)
    /\ spiram_bad_pattern8' = IF g = 8 THEN v ELSE spiram_bad_pattern8
    /\ spiram_bad_pattern16' = IF g = 16 THEN v ELSE spiram_bad_pattern16
    /\ spiram_bad_pattern32' = IF g = 32 THEN v ELSE spiram_bad_pattern32

\* read ram: mem_read = mem_base[i], one load per step; the first mismatch is
\* recorded and ends the memtest
memtest_read(g, here) ==
    /\ pc = here
    /\ st_touched' = TRUE
    /\ acc' = Append(acc, Access(g, "load", idx))
    /\ \E v \in LoadValues(g, idx) :
          IF v # Pattern(g)
          THEN /\ Mismatch(g, idx, v)
               /\ faults' = IF LoadMapped /\ v # ReadElem(mem, g, idx) THEN faults + 1 ELSE faults
               /\ observed' = IF observed[g] = NoObs
                              THEN [observed EXCEPT ![g] = [addr |-> ElemAddr(g, idx), val |-> v]]
                              ELSE observed
               /\ pc' = spiram_test_next(here)
               /\ idx' = 0
          ELSE /\ UNCHANGED <<spiram_err, bad, observed, faults>>
               /\ IF idx + 1 < ElemCount(g)
                  THEN pc' = here /\ idx' = idx + 1
                  ELSE pc' = spiram_test_next(here) /\ idx' = 0
    /\ UNCHANGED <<xfer, caller, use_hal, fast, spiram_id, sCommand, cmd_ok, hw, rets, log,
                   quad_entry_err, quad_first_fail, hal_failed, test_entry_err>>

memtest32_write == memtest_write(32, "memtest32_write")
memtest32_read  == memtest_read(32, "memtest32_read")
memtest16_write == memtest_write(16, "memtest16_write")
memtest16_read  == memtest_read(16, "memtest16_read")
memtest8_write  == memtest_write(8, "memtest8_write")
memtest8_read   == memtest_read(8, "memtest8_read")

\* what spiram_test returns
spiram_test_result(err) == IF err = "MEMTEST_PASS" THEN "true" ELSE "false"

\* spiram_error(SPIRAM_ERR_MEMTEST_PASS); return spiram_err == SPIRAM_ERR_MEMTEST_PASS;
test_pass ==
    /\ pc = "test_pass"
    /\ spiram_err' = spiram_error("MEMTEST_PASS")
    /\ test_ret' = spiram_test_result(spiram_err')
    /\ pc' = IF caller = "init" THEN After("test_pass") ELSE "idle"
    /\ UNCHANGED <<xfer, trace, faults, caller, use_hal, fast, spiram_id, bad, sCommand, idx, cmd_ok, hw,
                   init_ret, tests, console, log, ghost>>

\* what spiram_init returns
spiram_init_result == "true"

\* return true;
init_return ==
    /\ pc = "init_return"
    /\ init_ret' = spiram_init_result
    /\ pc' = "idle"
    /\ UNCHANGED <<xfer, trace, faults, caller, use_hal, fast, diag, sCommand, idx, cmd_ok, hw,
                   test_ret, tests, console, log, ghost>>

----------------------------------------------------------------------------
(* spiram_read and spiram_write, called by the user once spiram_init has
   returned; the first step is the call with its HAL_OSPI_Command, the second
   the data phase *)

\* arguments the user passes
XferAddrs == {0, MICROPY_HW_SPIRAM_SIZE - 2}
XferLens == {1, 2}
\* the bytes the user passes to spiram_write
user_src == <<60, 195>>

\* a failure branch of spiram_read or spiram_write that stores an error
spiram_err_after_record(ok) == IF ok THEN spiram_err ELSE "CLEAR"

\* spiram_err after a HAL call of spiram_read or spiram_write: the failure
\* branches raise, none of them calls spiram_error
spiram_err_after_raise(ok) == spiram_err

\* what the data phase of spiram_read or spiram_write does besides its own
\* effect: it is logged, and a failure is raised to the caller
HalOrRaise(op, cmd, ok) ==
    /\ ok \/ faults < MaxFaults
    /\ faults' = IF ok THEN faults ELSE faults + 1
    /\ log' = Append(log, [op |-> op, cmd |-> cmd])
    /\ raised' = IF ok THEN raised ELSE op
    /\ spiram_err' = spiram_err_after_raise(ok)

\* the call: sCommand is set up and HAL_OSPI_Command is issued
XferCall(who, cmd, next) ==
    /\ pc = "idle"
    /\ tests < MaxTests
    /\ tests' = tests + 1
    /\ caller' = who
    /\ sCommand' = cmd
    /\ console' = nothing_printed
    /\ dest' = <<>>
    /\ faults < MaxFaults
    /\ \E ok \in BOOLEAN :
          /\ ok \/ faults + 1 < MaxFaults
          /\ faults' = IF ok THEN faults + 1 ELSE faults + 2
          /\ log' = <<[op |-> "HAL_OSPI_Command", cmd |-> cmd]>>
          /\ raised' = IF ok THEN "none" ELSE "HAL_OSPI_Command"
          /\ pc' = mp_raise_RuntimeError(next, ok)
          /\ spiram_err' = spiram_err_after_raise(ok)
    /\ UNCHANGED <<use_hal, fast, spiram_id, bad, idx, cmd_ok, hw, init_ret, test_ret, ghost, trace>>

spiram_read ==
    \E a \in XferAddrs, n \in XferLens :
        XferCall("read", spiram_read_cmd(a, n), "spiram_read_dta")

\* the bytes HAL_OSPI_Receive delivers for the command in sCommand
ReceiveData == [k \in 1..sCommand.NbData |-> mem[sCommand.Address + k - 1]]

spiram_read_dta ==
    /\ pc = "spiram_read_dta"
    /\ \E ok \in BOOLEAN :
          /\ HalOrRaise("HAL_OSPI_Receive", ZeroCmd, ok)
          /\ dest' = IF ok THEN ReceiveData ELSE dest
    /\ pc' = "idle"
    /\ UNCHANGED <<caller, use_hal, fast, spiram_id, bad, sCommand, idx, cmd_ok, hw, init_ret, test_ret,
                   tests, console, ghost, trace>>

spiram_write ==
    \E a \in XferAddrs, n \in XferLens :
        XferCall("write", spiram_write_cmd(a, n), "spiram_write_dta")

\* the ram after HAL_OSPI_Transmit has sent the bytes of the command in sCommand
TransmitData(m) ==
    [b \in DOMAIN m |->
        IF b \in sCommand.Address..(sCommand.Address + sCommand.NbData - 1)
        THEN user_src[b - sCommand.Address + 1]
        ELSE m[b]]

spiram_write_dta ==
    /\ pc = "spiram_write_dta"
    /\ \E ok \in BOOLEAN :
          /\ HalOrRaise("HAL_OSPI_Transmit", ZeroCmd, ok)
          /\ mem' = IF ok THEN TransmitData(mem) ELSE mem
    /\ pc' = "idle"
    /\ UNCHANGED <<caller, use_hal, fast, spiram_id, bad, sCommand, idx, cmd_ok, wcfg, rcfg, mmap, mpu,
                   init_ret, test_ret, tests, console, dest, ghost, trace>>

----------------------------------------------------------------------------
(* spiram_dmesg: the identifier line and the line for spiram_err *)

dmesg_report ==
    [eid |-> spiram_id,
     result |-> spiram_err,
     address |-> IF spiram_err \in {"MEMTEST8", "MEMTEST16", "MEMTEST32"}
                 THEN spiram_bad_addr ELSE <<>>,
     written |-> CASE spiram_err = "MEMTEST8" -> spiram_pattern8
                   [] spiram_err = "MEMTEST16" -> spiram_pattern16
                   [] spiram_err = "MEMTEST32" -> spiram_pattern32
                   [] OTHER -> <<>>,
     read |-> CASE spiram_err = "MEMTEST8" -> spiram_bad_pattern8
                [] spiram_err = "MEMTEST16" -> spiram_bad_pattern16
                [] spiram_err = "MEMTEST32" -> spiram_bad_pattern32
                [] OTHER -> <<>>]

spiram_dmesg ==
    /\ pc = "idle"
    /\ console' = dmesg_report
    /\ UNCHANGED <<xfer, trace, faults, prog, diag, sCommand, idx, cmd_ok, hw, init_ret, test_ret, tests, log, ghost>>

----------------------------------------------------------------------------

Next ==
    \/ spiram_init
    \/ ospi_init
    \/ quad_qspi_rst_en
    \/ quad_qspi_rst
    \/ quad_spi_rst_en
    \/ quad_spi_rst
    \/ read_id_cmd_step
    \/ read_id_dta
    \/ quad_on
    \/ clear_cmd_step
    \/ clear_tx
    \/ mmap_mpu_disable
    \/ mmap_write_cfg
    \/ mmap_read_cfg
    \/ mmap_activate
    \/ mmap_mpu_enable
    \/ test_enter
    \/ spiram_test
    \/ memtest32_write
    \/ memtest32_read
    \/ memtest16_write
    \/ memtest16_read
    \/ memtest8_write
    \/ memtest8_read
    \/ test_pass
    \/ init_return
    \/ spiram_dmesg
    \/ spiram_read
    \/ spiram_read_dta
    \/ spiram_write
    \/ spiram_write_dta

Spec == Init /\ [][Next]_vars

\* a call is in progress
Running == pc # "idle"

\* the processor goes on executing the call in progress, every HAL call
\* returning after its timeout at the latest; nothing obliges the user to
\* make a call
FairSpec == Spec /\ WF_vars(Running /\ Next)

----------------------------------------------------------------------------
(* Vocabulary of the properties *)

MemtestFailures == {"MEMTEST8", "MEMTEST16", "MEMTEST32"}
BringupFailures == spiram_err_enum \ ({"OK", "MEMTEST_PASS"} \cup MemtestFailures)

\* spiram_init has returned and nothing was called since (the log is its log)
InitReturned == pc = "idle" /\ tests = 0

\* a spiram_test call has run to its end and nothing was called since
TestDone ==
    test_entry_err # "none" /\ pc \in {"init_return", "idle"} /\ caller \in {"init", "user"}

\* the granularities whose read-back saw a mismatch in the current/last spiram_test
MismatchedGs == {g \in Granularities : observed[g] # NoObs}

\* what a log entry says about the step issued
Step(e) == <<e.op, e.cmd.OperationType, e.cmd.Instruction, e.cmd.InstructionMode>>
Steps(l) == [k \in 1..Len(l) |-> Step(l[k])]

Other(op) == <<op, "COMMON_CFG", 0, 0>>
Command(optype, ins, lines) == <<"HAL_OSPI_Command", optype, ins, lines>>

QuadOnSteps ==
    <<Command("COMMON_CFG", 102, 4), Command("COMMON_CFG", 153, 4),
      Command("COMMON_CFG", 102, 1), Command("COMMON_CFG", 153, 1),
      Command("COMMON_CFG", 159, 1), Other("HAL_OSPI_Receive"),
      Command("COMMON_CFG", 53, 1)>>

RECURSIVE ClearSteps(_)
ClearSteps(n) ==
    IF n = 0 THEN <<>>
    ELSE <<Command("COMMON_CFG", 56, 4), Other("HAL_OSPI_Transmit")>> \o ClearSteps(n - 1)

MmapSteps ==
    <<Other("ospi_mpu_disable_all"), Command("WRITE_CFG", 56, 4),
      Command("READ_CFG", 235, 4), Other("HAL_OSPI_MemoryMapped"),
      Other("ospi_mpu_enable_mapped")>>

TestSteps ==
    <<Other("spiram_memtest32"), Other("spiram_memtest16"), Other("spiram_memtest8")>>

ClearCount == (MICROPY_HW_SPIRAM_SIZE + sizeof_src - 1) \div sizeof_src

AllInitSteps ==
    <<Other("HAL_OSPI_Init")>> \o QuadOnSteps \o ClearSteps(ClearCount) \o MmapSteps \o TestSteps

BeforeQuadOnReturns ==
    {"boot", "ospi_init", "quad_qspi_rst_en", "quad_qspi_rst", "quad_spi_rst_en",
     "quad_spi_rst", "read_id_cmd", "read_id_dta", "quad_on"}

IsBusOp(e) ==
    e.op \in {"HAL_OSPI_Init", "HAL_OSPI_Command", "HAL_OSPI_Receive", "HAL_OSPI_Transmit",
              "HAL_OSPI_MemoryMapped"}

\* the fault spiram_dmesg reports with a memtest failure
ReportedFault == <<dmesg_report.address, dmesg_report.read>>

\* the pattern of each granularity, as the specification gives it
FixedPattern(g) ==
    CASE g = 8 -> <<165>> [] g = 16 -> <<90, 90>> [] g = 32 -> <<165, 165, 165, 165>>

\* spiram_test has retained granularity g's failure with the fault it observed
Captured(g) ==
    /\ spiram_err = memtest_errno(g)
    /\ spiram_bad_addr = observed[g].addr
    /\ dmesg_report.address = observed[g].addr
    /\ dmesg_report.written = FixedPattern(g)
    /\ dmesg_report.read = observed[g].val

----------------------------------------------------------------------------
(* C1: once spiram_err holds a value other than "ok", no step of spiram_init,
   spiram_test or bring-up changes it: a later attempt to record another
   outcome is a no-op and the result is never reset to "ok". *)
C1_FirstFailureWins == [][spiram_err # "OK" => spiram_err' = spiram_err]_vars

\* a bring-up failure is retained although a memtest saw a mismatch afterwards
C1_Witness == spiram_err = "OSPI_INIT" /\ observed[16] # NoObs /\ pc = "idle"

(* C2: if the write-path configuration, the read-path configuration or the
   mapping activation fails during spiram_init, spiram_init returns false. *)
C2_InitFalseOnMapFailure ==
    (init_ret # "none" /\ "fail" \in {wcfg, rcfg, mmap}) => init_ret = "false"

(* C3 as stated: when mapping activation fails during spiram_init, the
   self-test issues no load or store into the window in that run. *)
C3_NoSelfTestAfterMmapFailure == (tests = 0 /\ mmap = "fail") => ~st_touched

(* C3 as amended: when mapping activation fails during spiram_init, spiram_init
   still runs the self-test, all three memtests with their loads and stores,
   but the self-test returns false and the retained result stays a bring-up
   failure, never self-test-pass or a memtest failure. *)
C3_SelfTestRunsButRecordsNothing ==
    (InitReturned /\ mmap = "fail") =>
        /\ st_touched
        /\ SubSeq(Steps(log), Len(log) - 2, Len(log)) = TestSteps
        /\ test_ret = "false"
        /\ spiram_err \in BringupFailures

\* spiram_init has returned after a run whose only failure was the mapping activation
C3_Witness == InitReturned /\ mmap = "fail" /\ spiram_err = "OSPI_MMAP" /\ init_ret = "true"

(* C4 as stated: in every reachable state, the window being access-enabled
   implies that write-path configuration, read-path configuration and mapping
   activation have all completed successfully. *)
C4_EnabledOnlyAfterSuccess ==
    window_enabled => (wcfg = "ok" /\ rcfg = "ok" /\ mmap = "ok")

(* C4 as amended: the window is enabled only after memory-map configuration
   has been carried out: in every reachable state, the window being
   access-enabled implies that write-path configuration, read-path
   configuration and mapping activation have all been issued, whether they
   succeeded or not; it is never enabled before mapping activation was issued. *)
C4_EnabledOnlyAfterMapping ==
    window_enabled => (wcfg # "none" /\ rcfg # "none" /\ mmap # "none")

\* the window is enabled although the mapping activation failed
C4_Witness == window_enabled /\ mmap = "fail" /\ wcfg = "ok" /\ rcfg = "ok"

(* C5: in every run of spiram_init, ospi_mpu_disable_all has completed before
   the first bus configuration call is issued, controller initialisation, the
   reset and quad-enable commands and the clearing writes included. *)
C5_BlockAllBeforeBusConfig ==
    \A k \in 1..Len(log) :
        IsBusOp(log[k]) => \E j \in 1..(k - 1) : log[j].op = "ospi_mpu_disable_all"

(* C6: spiram_quad_on always issues all its steps (4-line reset-enable and
   reset, 1-line reset-enable and reset, identifier command and data phase,
   quad-enable) whatever subset of them fails, and when spiram_err was "ok"
   on entry, it holds afterwards the variant of the first step that failed
   in program order ("ok" if none failed). *)
C6_QuadOnAllStepsFirstFailure ==
    /\ (tests = 0 /\ pc \notin BeforeQuadOnReturns) =>
            /\ Len(log) >= 8
            /\ SubSeq(Steps(log), 2, 8) = QuadOnSteps
    /\ (tests = 0 /\ pc = "clear_cmd" /\ idx = 0 /\ quad_entry_err = "OK") =>
            spiram_err = (IF quad_first_fail = "none" THEN "OK" ELSE quad_first_fail)

\* spiram_quad_on has returned after two of its steps failed, the 4-line reset first
C6_Witness ==
    /\ pc = "clear_cmd" /\ idx = 0 /\ tests = 0
    /\ quad_entry_err = "OK" /\ quad_first_fail = "QSPI_RST" /\ faults = 2
    /\ spiram_err = "QSPI_RST"

(* C7: spiram_init always attempts every phase (controller init, mode
   negotiation, clearing writes, protection block, write-path and read-path
   programming, mapping activation, window enable and the self-test),
   whichever earlier phase failed: no failure skips a later phase. *)
C7_InitAttemptsEveryPhase == InitReturned => Steps(log) = AllInitSteps

\* spiram_init has returned after its first phase and the mapping activation failed
C7_Witness ==
    InitReturned /\ init_ret = "true" /\ spiram_err = "OSPI_INIT" /\ mmap = "fail"

(* C8: if every bring-up call succeeds and every load of the self-test
   delivers the written pattern, spiram_init returns true, the retained
   result is self-test-pass and spiram_id holds the 8 bytes of the device's
   read-identifier response. *)
C8_SuccessfulBringUp ==
    (InitReturned /\ ~hal_failed /\ MismatchedGs = {}) =>
        /\ init_ret = "true"
        /\ spiram_err = "MEMTEST_PASS"
        /\ spiram_id = <<13, 93, 82, 162, 100, 49, 145, 49>>
        /\ Len(spiram_id) = 8

\* spiram_init has returned after a run without any failure or mismatch
C8_Witness == InitReturned /\ ~hal_failed /\ MismatchedGs = {} /\ faults = 0

(* C9 as stated: when no failure is retained on entry to spiram_test (the
   result is "ok" or self-test-pass) and exactly one granularity g observes a
   mismatch, the retained result is g's failure variant, the captured address
   is the lowest mismatching address of g's scan, the expected value is g's
   fixed pattern and the observed value is the value read at that address. *)
C9_SingleMismatchCaptured ==
    (TestDone /\ test_entry_err \in {"OK", "MEMTEST_PASS"} /\ Cardinality(MismatchedGs) = 1)
        => \A g \in MismatchedGs : Captured(g)

(* C9 as amended: when the retained result is "ok" on entry to spiram_test
   (nothing is retained, not even self-test-pass) and exactly one granularity
   g observes a mismatch, the retained result is g's failure variant, the
   captured address is the lowest mismatching address of g's scan, the
   expected value is g's fixed pattern and the observed value is the value
   read at that address. *)
C9_SingleMismatchCapturedFromOk ==
    (TestDone /\ test_entry_err = "OK" /\ Cardinality(MismatchedGs) = 1)
        => \A g \in MismatchedGs : Captured(g)

\* only the 16-bit scan saw a mismatch, at its second element
C9_Witness ==
    /\ TestDone /\ test_entry_err = "OK" /\ MismatchedGs = {16}
    /\ observed[16].addr = <<36864, 2>>
    /\ spiram_err = "MEMTEST16"

(* C10: once a self-test failure is retained with its captured address and
   observed value, no later granularity pass and no later spiram_test run
   changes the address or the observed value reported with that failure. *)
C10_CapturedFaultKept ==
    [][(spiram_err \in MemtestFailures) => (ReportedFault' = ReportedFault)]_vars

(* C11: spiram_test records self-test-pass (the retained result becomes
   self-test-pass during the call) only if none of the three memtests saw a
   mismatch in that call and nothing was retained before it; when a bring-up
   failure was retained on entry, the result stays that failure and
   spiram_test returns false, even when every load delivered the pattern. *)
C11_PassOnlyCleanRun ==
    TestDone =>
        /\ (spiram_err = "MEMTEST_PASS" /\ test_entry_err # "MEMTEST_PASS")
                => (MismatchedGs = {} /\ test_entry_err = "OK")
        /\ (test_entry_err \in BringupFailures)
                => (spiram_err = test_entry_err /\ test_ret = "false")

\* a self-test entered with a bring-up failure retained has read back every pattern
C11_Witness ==
    /\ TestDone /\ test_entry_err = "QUAD_ON" /\ MismatchedGs = {}
    /\ LoadMapped /\ spiram_err = "QUAD_ON" /\ test_ret = "false"

\* the order in which spiram_test calls the memtests
ScanOrder == <<32, 16, 8>>

\* the stores of one write loop, and the first n loads of one read loop
Stores(g) == [k \in 1..ElemCount(g) |-> Access(g, "store", k - 1)]
Loads(g, n) == [k \in 1..n |-> Access(g, "load", k - 1)]

\* the number of loads a read loop issues: up to its first mismatch
LoadsIssued(g) ==
    IF observed[g] = NoObs
    THEN ElemCount(g)
    ELSE 1 + (CHOOSE i \in 0..(ElemCount(g) - 1) : ElemAddr(g, i) = observed[g].addr)

\* the accesses of one memtest, and of a whole spiram_test
Scan(g) == Stores(g) \o Loads(g, LoadsIssued(g))
FullTest == Scan(ScanOrder[1]) \o Scan(ScanOrder[2]) \o Scan(ScanOrder[3])

(* C12: spiram_test always runs the 32-bit, the 16-bit and the 8-bit memtest
   in that order; a mismatch ends only the read loop of the memtest that saw
   it, at the first mismatching element, and the memtests after it still
   write and read back the whole ram. *)
C12_AllGranularitiesInOrder ==
    TestDone =>
        /\ acc = FullTest
        /\ SubSeq(Steps(log), Len(log) - 2, Len(log)) = TestSteps

\* the 32-bit read loop stopped at its first element, the 16-bit and 8-bit memtests ran in full
C12_Witness ==
    /\ TestDone /\ LoadMapped
    /\ observed[32].addr = OSPI_MAP_ADDR /\ observed[16] = NoObs /\ observed[8] = NoObs
    /\ Len(acc) = ElemCount(32) + 1 + 2 * ElemCount(16) + 2 * ElemCount(8)

\* the result spiram_test retains, from the result on entry and the mismatches
\* its read loops saw
ExpectedResult ==
    IF test_entry_err # "OK" THEN test_entry_err
    ELSE IF observed[32] # NoObs THEN "MEMTEST32"
    ELSE IF observed[16] # NoObs THEN "MEMTEST16"
    ELSE IF observed[8] # NoObs THEN "MEMTEST8"
    ELSE "MEMTEST_PASS"

\* the fault address after spiram_test: the one of the last memtest that saw a mismatch
ExpectedBadAddr ==
    IF observed[8] # NoObs THEN observed[8].addr
    ELSE IF observed[16] # NoObs THEN observed[16].addr
    ELSE observed[32].addr

\* the bad value of granularity g in the statics
BadPattern(g) ==
    CASE g = 8 -> spiram_bad_pattern8
      [] g = 16 -> spiram_bad_pattern16
      [] g = 32 -> spiram_bad_pattern32

(* C13: the argument fast of spiram_test does not alter behaviour: with fast
   true as with fast false, the loads and stores issued, the diagnostic state
   left and the value returned are the same function of the state on entry
   and of what the loads delivered. *)
C13_FastIgnored ==
    \A f \in BOOLEAN :
        (TestDone /\ fast = f) =>
            /\ acc = FullTest
            /\ spiram_err = ExpectedResult
            /\ test_ret = spiram_test_result(ExpectedResult)
            /\ \A g \in MismatchedGs : BadPattern(g) = observed[g].val
            /\ MismatchedGs # {} => spiram_bad_addr = ExpectedBadAddr

\* spiram_test(true) has run all three memtests, and the 16-bit one saw a mismatch
C13_Witness ==
    /\ TestDone /\ caller = "user" /\ fast /\ LoadMapped
    /\ MismatchedGs = {16} /\ Len(acc) > 2 * ElemCount(32) + 2 * ElemCount(8)

\* the HAL call that is the data phase of the transfer in progress or made last
DataPhase == IF caller = "read" THEN "HAL_OSPI_Receive" ELSE "HAL_OSPI_Transmit"

\* the last call was spiram_read or spiram_write
InTransfer == caller \in {"read", "write"}

(* C14: spiram_read and spiram_write fail their caller at once on a transport
   error in either phase: each issues its command once and its data phase at
   most once, a failed command is raised without the data phase being
   attempted, a failed data phase is raised, and the call returns normally
   only when both phases succeeded. *)
C14_TransferFailsAtOnce ==
    InTransfer =>
        /\ Len(log) \in {1, 2}
        /\ log[1].op = "HAL_OSPI_Command"
        /\ Len(log) = 2 => log[2].op = DataPhase
        /\ raised \in {"none", "HAL_OSPI_Command", DataPhase}
        /\ raised = "HAL_OSPI_Command" => (Len(log) = 1 /\ pc = "idle")
        /\ raised = DataPhase => (Len(log) = 2 /\ pc = "idle")
        /\ (pc = "idle" /\ raised = "none") => Len(log) = 2
        /\ pc \in {"idle", "spiram_read_dta", "spiram_write_dta"}

\* the command of a spiram_write failed: the caller has the exception, nothing was transmitted
C14_Witness ==
    /\ caller = "write" /\ pc = "idle" /\ raised = "HAL_OSPI_Command"
    /\ Len(log) = 1 /\ log[1].cmd.Instruction = SRAM_CMD_QUAD_WRITE

\* the commands of mode negotiation, in the order required
NegotiationOrder ==
    <<Command("COMMON_CFG", 102, 4), Command("COMMON_CFG", 153, 4),
      Command("COMMON_CFG", 102, 1), Command("COMMON_CFG", 153, 1),
      Command("COMMON_CFG", 159, 1), Command("COMMON_CFG", 53, 1)>>

\* a step that issues a reset-enable, reset, read-identifier or enable-quad-mode command
IsNegotiation(st) == st[1] = "HAL_OSPI_Command" /\ st[3] \in {102, 153, 159, 53}

\* the mode-negotiation commands issued so far by the current top-level call
NegotiationIssued == SelectSeq(Steps(log), IsNegotiation)

(* C15: the mode-negotiation commands are issued in exactly this order:
   reset-enable and reset on 4 lines, reset-enable and reset on 1 line,
   read-identifier on 1 line, enable-quad-mode on 1 line; the read-identifier
   command is never issued once enable-quad-mode has been issued. *)
C15_NegotiationOrder ==
    LET issued == NegotiationIssued
    IN  /\ Len(issued) <= Len(NegotiationOrder)
        /\ issued = SubSeq(NegotiationOrder, 1, Len(issued))
        /\ (tests = 0 /\ pc \notin BeforeQuadOnReturns) => issued = NegotiationOrder
        /\ \A j, k \in 1..Len(issued) :
              (issued[j][3] = 53 /\ issued[k][3] = 159) => k < j

\* mode negotiation is over, with its read-identifier command failed
C15_Witness ==
    /\ tests = 0 /\ pc = "clear_cmd" /\ idx = 0
    /\ spiram_err = "READID_CMD" /\ faults = 1
    /\ Len(NegotiationIssued) = 6

\* the reset pairs on 4 lines and on 1 line, then enable-quad-mode
ResetAndQuadOn ==
    <<Command("COMMON_CFG", 102, 4), Command("COMMON_CFG", 153, 4),
      Command("COMMON_CFG", 102, 1), Command("COMMON_CFG", 153, 1),
      Command("COMMON_CFG", 53, 1)>>

IsResetOrQuadOn(st) == st[1] = "HAL_OSPI_Command" /\ st[3] \in {102, 153, 53}

\* a transaction on 4 lines other than the resets
IsQuadLine(e) == e.cmd.InstructionMode = 4 /\ e.cmd.Instruction \notin {102, 153}

(* C16: in spiram_init, apart from the reset-enable/reset pair on 4 lines that
   opens the reset sequence, no transaction on 4 lines (the clearing writes,
   the write-path and the read-path configuration) is issued before both
   reset pairs and the enable-quad-mode command have been issued.  Stated
   for the transaction issued last, in every reachable state. *)
C16_NoQuadLineBeforeNegotiation ==
    (tests = 0 /\ log # <<>> /\ IsQuadLine(log[Len(log)])) =>
        SelectSeq(Steps(SubSeq(log, 1, Len(log) - 1)), IsResetOrQuadOn) = ResetAndQuadOn

\* the clearing writes and both configurations were issued after an enable-quad-mode that failed
C16_Witness ==
    /\ tests = 0 /\ pc = "mmap_activate" /\ spiram_err = "QUAD_ON"
    /\ \E k \in 1..Len(log) : IsQuadLine(log[k]) /\ log[k].cmd.OperationType = "READ_CFG"

\* the commands issued by the current top-level call
CommandsIssued == {log[k].cmd : k \in {j \in 1..Len(log) : log[j].op = "HAL_OSPI_Command"}}

(* C17: every command that writes to the device or programs the write path
   (instruction 0x38: write-path configuration, clearing writes, spiram_write)
   is issued with the data strobe enabled, and every other command (read-path
   configuration with 6 dummy cycles, spiram_read, resets, read-identifier,
   enable-quad-mode) with the data strobe disabled; the write path is never
   programmed with the strobe disabled. *)
C17_StrobeOnWritesOnly ==
    \A c \in CommandsIssued :
        /\ c.DQSMode <=> (c.Instruction = 56)
        /\ c.OperationType = "WRITE_CFG" => (c.Instruction = 56 /\ c.DQSMode)
        /\ c.OperationType = "READ_CFG" => (c.Instruction = 235 /\ c.DummyCycles = 6)
        /\ c.Instruction = 235 => (~c.DQSMode /\ c.DummyCycles = 6)

\* spiram_write has issued its command, strobe enabled, after a bring-up that programmed both paths
C17_Witness ==
    /\ caller = "write" /\ pc = "spiram_write_dta" /\ wcfg = "ok" /\ rcfg = "ok"
    /\ \E c \in CommandsIssued : c.Instruction = 56 /\ c.DQSMode /\ c.OperationType = "COMMON_CFG"

\* the steps of the self-test in the log
MemtestOps == {"spiram_memtest32", "spiram_memtest16", "spiram_memtest8"}

(* C18: the mapping is activated only after the write-path configuration and
   then the read-path configuration have both been issued, in that order, as
   HAL_OSPI_Command calls; the driver issues no load or store into the window
   before the activation of the mapping has been issued.  The two
   conditions on the log are stated for the step logged last, in every
   reachable state. *)
C18_ActivateAfterBothConfigs ==
    /\ (log # <<>> /\ log[Len(log)].op = "HAL_OSPI_MemoryMapped") =>
          \E j \in 2..(Len(log) - 1) :
              /\ Step(log[j]) = Command("READ_CFG", 235, 4)
              /\ \E i \in 1..(j - 1) : Step(log[i]) = Command("WRITE_CFG", 56, 4)
    /\ mmap # "none" => (wcfg # "none" /\ rcfg # "none")
    /\ (st_touched \/ acc # <<>>) => mmap # "none"
    /\ (tests = 0 /\ log # <<>> /\ log[Len(log)].op \in MemtestOps) =>
          \E j \in 1..(Len(log) - 1) : log[j].op = "HAL_OSPI_MemoryMapped"

\* the first store of the self-test, after a mapping activated although the write-path configuration failed
C18_Witness ==
    /\ tests = 0 /\ Len(acc) = 1 /\ mmap = "ok" /\ wcfg = "fail" /\ rcfg = "ok"

\* the positions in acc of the accesses of kind op of granularity g
Issued(g, op) == {k \in 1..Len(acc) : acc[k][1] = g /\ acc[k][2] = op}

\* the access issued last
LastAccess == acc[Len(acc)]

(* C19: within each memtest, every element of the ram is written with the
   pattern before the first read-back of that memtest; stores and loads of a
   memtest are never interleaved.  Stated for the access issued last, in
   every reachable state: a load is issued only when every element of its
   granularity has been stored, a store only when no element of its
   granularity has been loaded. *)
C19_WriteAllThenRead ==
    acc # <<>> =>
        /\ LastAccess[2] = "load" =>
              {acc[k][3] : k \in Issued(LastAccess[1], "store")}
                  = 0..(ElemCount(LastAccess[1]) - 1)
        /\ LastAccess[2] = "store" => Issued(LastAccess[1], "load") = {}

\* the 16-bit memtest has read back its first element and goes on reading
C19_Witness ==
    /\ pc = "memtest16_read" /\ idx = 1 /\ LoadMapped /\ StoreLands
    /\ acc[Len(acc)] = <<16, "load", 0>>

\* the number of bytes from address b up to address a
Diff(a, b) == (a[1] - b[1]) * 65536 + (a[2] - b[2])

\* the bytes of [spiram_start(), spiram_end()), as offsets from spiram_start()
WindowBytes == 0..(Diff(spiram_end, spiram_start) - 1)

\* the bytes one load or store touches, as offsets from spiram_start()
ByteOffs(e) ==
    LET o == Diff(ElemAddr(e[1], e[3]), spiram_start)
    IN  o..(o + (e[1] \div 8) - 1)

\* the bytes touched by the accesses of kind op of granularity g, one pair
\* <<position in acc, offset>> for each time a byte is touched
Touched(g, op) == UNION {{<<k, o>> : o \in ByteOffs(acc[k])} : k \in Issued(g, op)}

\* the three memtests have returned, spiram_test has not yet
ScansDone == pc = "test_pass"

\* every byte of the window is touched exactly once, and no other byte
ExactlyOnce(T) ==
    /\ {p[2] : p \in T} = WindowBytes
    /\ Cardinality(T) = Cardinality(WindowBytes)

\* no byte is touched twice, and no byte outside the window
AtMostOnce(T) ==
    /\ {p[2] : p \in T} \subseteq WindowBytes
    /\ Cardinality(T) = Cardinality({p[2] : p \in T})

(* C20: at each of the three granularities the self-test writes, and absent
   a mismatch reads back, exactly the bytes of [spiram_start(), spiram_end()):
   every byte of the window is covered once per pass, no access falls outside
   the window (stated for the access issued last, in every reachable state),
   and spiram_end() - spiram_start() is the size of the ram. *)
C20_WindowCoveredExactly ==
    /\ Diff(spiram_end, spiram_start) = MICROPY_HW_SPIRAM_SIZE
    /\ acc # <<>> => ByteOffs(LastAccess) \subseteq WindowBytes
    /\ ScansDone =>
          \A g \in Granularities :
              /\ ExactlyOnce(Touched(g, "store"))
              /\ AtMostOnce(Touched(g, "load"))
              /\ observed[g] = NoObs => ExactlyOnce(Touched(g, "load"))

\* the memtests of a self-test called by the user have read back every byte at every granularity
C20_Witness ==
    /\ ScansDone /\ caller = "user" /\ MismatchedGs = {} /\ LoadMapped /\ StoreLands
    /\ Len(acc) = 2 * (ElemCount(8) + ElemCount(16) + ElemCount(32))
    /\ spiram_err = "MEMTEST_PASS"

----------------------------------------------------------------------------
(* What the MPU lets through *)

\* bytes of an MPU region size on the scale of the model: MPU_REGION_SIZE_8MB
\* is the size of the ram (0x800000), MPU_REGION_SIZE_256MB is 32 times that
RegionBytes(size) ==
    CASE size = "8MB" -> MICROPY_HW_SPIRAM_SIZE
      [] size = "256MB" -> 32 * MICROPY_HW_SPIRAM_SIZE
      [] OTHER -> 0

\* the address range the octospi controller can claim, as offsets from OSPI_MAP_ADDR
OspiRange == 0..(RegionBytes("256MB") - 1)

\* address a lies in region r
Covers(r, a) ==
    /\ r.size # "none"
    /\ a[1] - r.base[1] \in 0..(RegionBytes(r.size) \div 65536 + 1)
    /\ Diff(a, r.base) \in 0..(RegionBytes(r.size) - 1)

\* region r forbids every access
Denies(r) == r.attr = "MPU_CONFIG_DISABLE"

\* the MPU forbids access to address a: with the MPU switched off nothing is
\* forbidden; otherwise the region of the highest number that covers a
\* decides (MPU_REGION_QSPI2 over MPU_REGION_QSPI1), and an address no region
\* covers is left to the default map (MPU_PRIVILEGED_DEFAULT)
Blocked(a) ==
    /\ mpu.ctrl # "off"
    /\ IF Covers(mpu.QSPI2, a) THEN Denies(mpu.QSPI2)
       ELSE IF Covers(mpu.QSPI1, a) THEN Denies(mpu.QSPI1)
       ELSE IF Covers(mpu.REGION0, a) THEN Denies(mpu.REGION0)
       ELSE FALSE

\* address a lies in [spiram_start(), spiram_end())
InWindow(a) == Diff(a, spiram_start) >= 0 /\ Diff(spiram_end, a) > 0

\* ospi_mpu_disable_all has run
block_all_done == IF use_hal THEN mpu.ctrl # "reset" ELSE mpu.QSPI1.attr # "unset"

(* C21: once ospi_mpu_disable_all has run, every address of the controller's
   256 MB range outside [spiram_start(), spiram_end()) is blocked, before and
   after the mapping; once ospi_mpu_enable_mapped has run, the addresses of
   the window, and only those, are accessible. *)
C21_OnlyWindowAccessible ==
    /\ block_all_done =>
          \A o \in OspiRange :
              ~InWindow(AddU32(OSPI_MAP_ADDR, o)) => Blocked(AddU32(OSPI_MAP_ADDR, o))
    /\ window_enabled =>
          \A o \in OspiRange :
              InWindow(AddU32(OSPI_MAP_ADDR, o)) <=> ~Blocked(AddU32(OSPI_MAP_ADDR, o))

\* the attributes the window region is programmed with
window_attr == IF use_hal THEN mpu.REGION0.attr ELSE mpu.QSPI2.attr

\* the attributes the notes at the head of the file report as corrupting
\* writes: MPU_TEX_LEVEL1, MPU_ACCESS_CACHEABLE, MPU_ACCESS_BUFFERABLE
corrupting_attr == "TEX1_CACHEABLE_BUFFERABLE"

(* C22: in both builds, the window is never enabled with the attributes
   documented as corrupting writes (TEX level 1, cacheable, bufferable). *)
C22_NoCorruptingAttributes == window_enabled => window_attr # corrupting_attr

----------------------------------------------------------------------------
(* No retries *)

\* the transactions of bring-up: the four reset steps, the read-identifier
\* command and its data phase, enable-quad-mode, the two configurations and
\* the activation of the mapping
BringUpSteps ==
    {QuadOnSteps[k] : k \in 1..Len(QuadOnSteps)}
        \cup {Command("WRITE_CFG", 56, 4), Command("READ_CFG", 235, 4),
              Other("HAL_OSPI_MemoryMapped")}

\* how often step st was issued by the current top-level call
TimesIssued(st) == Cardinality({k \in 1..Len(log) : Step(log[k]) = st})

(* C23: within one run of spiram_init no bring-up transaction is issued a
   second time, whether it succeeded or failed (stated for the step logged
   last, in every reachable state), and when spiram_init has returned each
   of them has been issued exactly once. *)
C23_NoRetry ==
    /\ (tests = 0 /\ log # <<>> /\ Step(log[Len(log)]) \in BringUpSteps) =>
          TimesIssued(Step(log[Len(log)])) = 1
    /\ InitReturned => \A st \in BringUpSteps : TimesIssued(st) = 1

\* spiram_init has returned from a run in which the read-identifier command and
\* the write-path configuration failed
C23_Witness ==
    /\ InitReturned /\ spiram_err = "READID_CMD" /\ wcfg = "fail" /\ faults = 2
    /\ TimesIssued(Command("COMMON_CFG", 159, 1)) = 1
    /\ TimesIssued(Command("WRITE_CFG", 56, 4)) = 1

----------------------------------------------------------------------------
(* The identifier *)

(* C24: spiram_id is written only by the data phase of the read-identifier
   step of spiram_init, and by no more than one such data phase per run; no
   step of ospi_mmap, of the self-test, of spiram_read, of spiram_write or
   of spiram_dmesg changes it. *)
C24_IdWrittenOnlyByReadId ==
    [][spiram_id' # spiram_id =>
           /\ pc = "read_id_dta" /\ caller = "init" /\ tests = 0
           /\ \A k \in 1..Len(log) : log[k].op # "HAL_OSPI_Receive"]_vars

\* spiram_read has delivered its data, and spiram_id still holds what the
\* read-identifier step of spiram_init stored
C24_Witness ==
    /\ caller = "read" /\ pc = "idle" /\ raised = "none" /\ dest # <<>>
    /\ spiram_id = DeviceId

----------------------------------------------------------------------------
(* Termination *)

(* C25: spiram_init terminates and returns, whichever HAL calls fail and
   whatever values the loads of the self-test deliver. *)
C25_InitTerminates == <>(init_ret # "none" /\ pc = "idle")

\* spiram_init has returned from a run in which as many HAL calls failed or
\* loads were corrupted as the bound allows
C25_Witness == InitReturned /\ init_ret # "none" /\ faults = MaxFaults

----------------------------------------------------------------------------
(* The self-test called again *)

(* C26: whenever spiram_test returns true, none of its three memtests saw a
   mismatch during that call; this for every call, whatever result was
   retained when it was entered. *)
C26_TrueMeansNoMismatch == (TestDone /\ test_ret = "true") => MismatchedGs = {}

(* C27: once spiram_init has returned, spiram_err is never SPIRAM_ERR_OK: it
   is MEMTEST_PASS or one of the failure variants. *)
C27_NeverOkAfterInit ==
    init_ret # "none" => spiram_err \in spiram_err_enum \ {"OK"}

\* spiram_init has returned from a run in which nothing failed
C27_Witness ==
    /\ InitReturned /\ init_ret # "none" /\ faults = 0 /\ ~hal_failed
    /\ spiram_err = "MEMTEST_PASS"

----------------------------------------------------------------------------
(* spiram_read and spiram_write leave the diagnostics alone *)

(* C28: no step of spiram_read or spiram_write, succeeding or failing,
   changes spiram_err, spiram_bad_addr, the spiram_bad_pattern values or
   spiram_id; a failure shows only in the exception raised to the caller. *)
C28_TransfersKeepDiagnostics ==
    [][caller' \in {"read", "write"} => diag' = diag]_vars

\* spiram_write has raised from its data phase, and spiram_err is still what
\* spiram_init left
C28_Witness ==
    /\ caller = "write" /\ pc = "idle" /\ raised = "HAL_OSPI_Transmit"
    /\ spiram_err = "MEMTEST_PASS" /\ spiram_id = DeviceId

----------------------------------------------------------------------------
(* spiram_clear *)

\* spiram_clear has returned, ospi_mmap has not yet begun
ClearReturned == tests = 0 /\ pc = After("clear_tx")

(* C29: when spiram_clear has returned and every HAL call up to there has
   succeeded, every byte of the spi ram holds zero. *)
C29_ClearZeroes ==
    (ClearReturned /\ ~hal_failed) => \A a \in DOMAIN mem : mem[a] = 0

====
